---- MODULE Spec2Model ----
(***************************************************************************)
(* Model of slurmmail/common.py: the unit conversions                      *)
(* get_kbytes_from_str, get_str_from_kbytes and get_usec_from_str, the     *)
(* fatal exit die, and tail_file with the external command it runs.        *)
(*                                                                         *)
(* Strings are sequences of one-character strings.  Python integers are    *)
(* unbounded, so numbers are kept as little-endian sequences of limbs in   *)
(* base 1024 with no leading zero limb (zero is the empty sequence).       *)
(* A float is kept exactly as sign, mantissa and a count of base-1024      *)
(* fraction limbs: every value the model feeds to get_str_from_kbytes has  *)
(* fewer than 53 significant bits, so the divisions by 1024.0 are exact in *)
(* IEEE double arithmetic as well.                                         *)
(***************************************************************************)
EXTENDS Integers, Sequences, FiniteSets, TLC

VARIABLES
    pc,          \* control point of the running call
    arg,         \* arguments of the call
    loc,         \* local variables of the call
    ret,         \* Some(value returned to the caller), NoValue before the return
    log,         \* records handed to logger, oldest first
    stderr,      \* lines written to sys.stderr, oldest first
    exit_status, \* Some(status passed to sys.exit), NoValue while the process lives
    env          \* the world outside the process seen by tail_file

vars == <<pc, arg, loc, ret, log, stderr, exit_status, env>>

\* a variable that holds no value yet is the empty sequence, and one that
\* holds the value v is <<v>>
NoValue == << >>

Some(v) == <<v>>

(***************************************************************************)
(* Unbounded naturals.                                                     *)
(***************************************************************************)
Base == 1024

RECURSIVE Norm(_)
Norm(x) ==
    IF Len(x) > 0 /\ x[Len(x)] = 0 THEN Norm(SubSeq(x, 1, Len(x) - 1)) ELSE x

RECURSIVE BigFromInt(_)
BigFromInt(n) ==
    IF n = 0 THEN << >> ELSE <<n % Base>> \o BigFromInt(n \div Base)

RECURSIVE MulCarry(_, _, _)
MulCarry(x, c, carry) ==
    IF x = << >> THEN BigFromInt(carry)
    ELSE LET t == x[1] * c + carry
         IN  <<t % Base>> \o MulCarry(Tail(x), c, t \div Base)

\* x * c for a small multiplier c
BigMulSmall(x, c) == Norm(MulCarry(x, c, 0))

RECURSIVE AddCarry(_, _, _)
AddCarry(x, y, carry) ==
    IF x = << >> /\ y = << >> THEN BigFromInt(carry)
    ELSE LET a == IF x = << >> THEN 0 ELSE x[1]
             b == IF y = << >> THEN 0 ELSE y[1]
             t == a + b + carry
         IN  <<t % Base>>
             \o AddCarry(IF x = << >> THEN x ELSE Tail(x),
                         IF y = << >> THEN y ELSE Tail(y), t \div Base)

BigAdd(x, y) == Norm(AddCarry(x, y, 0))

\* quotient and remainder of x by a small divisor d
RECURSIVE BigDivMod(_, _)
BigDivMod(x, d) ==
    IF x = << >> THEN [q |-> << >>, r |-> 0]
    ELSE LET hi  == BigDivMod(Tail(x), d)
             cur == hi.r * Base + x[1]
         IN  [q |-> Norm(<<cur \div d>> \o hi.q), r |-> cur % d]

\* x * Base^e
RECURSIVE BigShift(_, _)
BigShift(x, e) ==
    IF e = 0 \/ x = << >> THEN x ELSE BigShift(<<0>> \o x, e - 1)

(***************************************************************************)
(* Characters and decimal text.                                            *)
(***************************************************************************)
DigitChars == <<"0", "1", "2", "3", "4", "5", "6", "7", "8", "9">>

IsDigit(c) == \E i \in 1..10 : DigitChars[i] = c

DigitVal(c) == (CHOOSE i \in 1..10 : DigitChars[i] = c) - 1

\* int() of a run of decimal digits
RECURSIVE DigitsToBig(_)
DigitsToBig(ds) ==
    IF ds = << >> THEN << >>
    ELSE BigAdd(BigMulSmall(DigitsToBig(SubSeq(ds, 1, Len(ds) - 1)), 10),
                BigFromInt(DigitVal(ds[Len(ds)])))

RECURSIVE BigToDigits(_)
BigToDigits(x) ==
    IF x = << >> THEN << >>
    ELSE LET dm == BigDivMod(x, 10)
         IN  BigToDigits(dm.q) \o <<DigitChars[dm.r + 1]>>

\* str() of a natural
BigToStr(x) == IF x = << >> THEN <<"0">> ELSE BigToDigits(x)

(***************************************************************************)
(* get_str_from_kbytes                                                     *)
(***************************************************************************)
UnitNames == << <<"K", "i">>, <<"M", "i">>, <<"G", "i">>, <<"T", "i">>,
               <<"P", "i">>, <<"E", "i">>, <<"Z", "i">> >>

\* a float: (-1)^neg * mant / Base^scale
Float(neg, mant, scale) == [neg |-> neg, mant |-> mant, scale |-> scale]

\* abs(value) < 1024.0
AbsBelow1024(v) == Len(v.mant) <= v.scale + 1

\* value /= 1024.0
DivideBy1024(v) == [v EXCEPT !.scale = v.scale + 1]

\* limb i (from 1, least significant first) of x, zero beyond its length
Limb(x, i) == IF i <= Len(x) THEN x[i] ELSE 0

\* the value in hundredths, rounded to nearest, ties to even,
\* as "{0:.2f}" rounds the exact binary value
Hundredths(v) ==
    LET p     == BigMulSmall(v.mant, 100)
        q     == IF Len(p) > v.scale THEN SubSeq(p, v.scale + 1, Len(p)) ELSE << >>
        top   == IF v.scale = 0 THEN 0 ELSE Limb(p, v.scale)
        low   == \E i \in 1..(v.scale - 1) : Limb(p, i) # 0
        above == top > Base \div 2 \/ (top = Base \div 2 /\ low)
        tie   == v.scale > 0 /\ top = Base \div 2 /\ ~low
        odd   == Limb(q, 1) % 2 = 1
    IN  IF above \/ (tie /\ odd) THEN BigAdd(q, <<1>>) ELSE q

\* "{0:.2f}".format(value)
FormatFixed2(v) ==
    LET dm == BigDivMod(Hundredths(v), 100)
    IN  (IF v.neg THEN <<"-">> ELSE << >>)
        \o BigToStr(dm.q) \o <<".">>
        \o <<DigitChars[(dm.r \div 10) + 1], DigitChars[(dm.r % 10) + 1]>>

\* a faulty variant, abs(value) <= 1024.0, which C6 has to tell apart
GetStrBelowLE(v) == AbsBelow1024(v) \/ v.mant = BigShift(<<1>>, v.scale + 1)

\* the test of the for loop: abs(value) < 1024.0
GetStrBelow(v) == AbsBelow1024(v)

\* sizes handed to get_str_from_kbytes: m * 1024^e, also negated, also
\* divided by 1024 once; every one is exact as a double
MaxExp == 8

Mantissas == {0, 1, 5, 128, 999, 1023, 1024, 1025, 1029, 1152, 1408, 1536,
              2047, 1048575, 1048576, 1048064}

Sizes ==
    {Float(neg, BigShift(BigFromInt(m), e), s) :
        neg \in BOOLEAN, m \in Mantissas, e \in 0..MaxExp, s \in 0..1}

InitStr ==
    /\ \E v \in Sizes :
          /\ arg = [fn |-> "get_str_from_kbytes", value |-> v]
          /\ loc = [value |-> v, unit |-> 1]
    /\ pc = "for_unit"
    /\ ret = NoValue
    /\ log = << >>
    /\ stderr = << >>
    /\ exit_status = NoValue
    /\ env = NoValue

\* line 126-127: the value is below 1024, return it with the current unit
StrReturnUnit ==
    /\ pc = "for_unit"
    /\ loc.unit <= Len(UnitNames)
    /\ GetStrBelow(loc.value)
    /\ ret' = Some(FormatFixed2(loc.value)
                   \o UnitNames[loc.unit] \o <<"B">>)
    /\ pc' = "done"
    /\ UNCHANGED <<arg, loc, log, stderr, exit_status, env>>

\* line 128: divide and go on to the next unit
StrDivide ==
    /\ pc = "for_unit"
    /\ loc.unit <= Len(UnitNames)
    /\ ~GetStrBelow(loc.value)
    /\ loc' = [value |-> DivideBy1024(loc.value), unit |-> loc.unit + 1]
    /\ UNCHANGED <<pc, arg, ret, log, stderr, exit_status, env>>

\* line 129: the unit list is used up
StrReturnYiB ==
    /\ pc = "for_unit"
    /\ loc.unit > Len(UnitNames)
    /\ ret' = Some(FormatFixed2(loc.value) \o <<"Y", "i", "B">>)
    /\ pc' = "done"
    /\ UNCHANGED <<arg, loc, log, stderr, exit_status, env>>

NextStr == StrReturnUnit \/ StrDivide \/ StrReturnYiB

SpecStr == InitStr /\ [][NextStr]_vars

(***************************************************************************)
(* get_kbytes_from_str                                                     *)
(***************************************************************************)
\* a Python int: sign and magnitude, zero never negative
PyInt(neg, mag) == [neg |-> neg /\ mag # << >>, mag |-> mag]

Zero == PyInt(FALSE, << >>)

\* a faulty variant that leaves the unit letter as written, which C10 has to
\* tell apart
UpperLeftOut(c) == c

\* str.upper() on the letters the model uses
Upper(c) ==
    CASE c = "k" -> "K"
      [] c = "m" -> "M"
      [] c = "g" -> "G"
      [] c = "t" -> "T"
      [] c = "x" -> "X"
      [] OTHER -> c

\* value[:-1] and value[-1:]
AllButLast(s) == IF s = << >> THEN s ELSE SubSeq(s, 1, Len(s) - 1)

LastChars(s) == IF s = << >> THEN s ELSE <<s[Len(s)]>>

\* float(text) for text over digits, '.', '-', '+' and letters other than
\* e, i, n, f, a: an optional sign, then digits with at most one point and
\* at least one digit.  ok is FALSE where float() raises ValueError.  The
\* texts of the model have no white space, underscore or exponent and fewer
\* than 16 digits, so the float holds the number exactly.
ParseFloat(text) ==
    LET signed == text # << >> /\ text[1] \in {"-", "+"}
        body   == IF signed THEN Tail(text) ELSE text
        points == {i \in 1..Len(body) : body[i] = "."}
        ok     == /\ Cardinality(points) <= 1
                  /\ \A i \in 1..Len(body) : IsDigit(body[i]) \/ body[i] = "."
                  /\ \E i \in 1..Len(body) : IsDigit(body[i])
        p      == IF points = {} THEN Len(body) + 1 ELSE CHOOSE i \in points : TRUE
    IN  [ok    |-> ok,
         neg   |-> signed /\ text[1] = "-",
         whole |-> SubSeq(body, 1, p - 1),
         frac  |-> SubSeq(body, p + 1, Len(body))]

\* int(x) of a float: the fraction is dropped, rounding toward zero
TruncateToInt(f) == PyInt(f.neg, DigitsToBig(f.whole))

\* the power of 1024 a unit letter multiplies by:
\* 1, 1024, 1048576 = 1024^2, 1073741824 = 1024^3
UnitPower(units) ==
    CASE units = <<"K">> -> 0
      [] units = <<"M">> -> 1
      [] units = <<"G">> -> 2
      [] units = <<"T">> -> 3
      [] OTHER -> -1

\* a faulty variant, "except OverflowError", which C4 has to tell apart
ExceptOverflowOnly(exc) == exc = "OverflowError"

\* whether a handler "except Exception" takes an exception of class exc
ExceptException(exc) == exc \notin {"SystemExit", "KeyboardInterrupt", "GeneratorExit"}

\* line 95-96
KbTrivial ==
    /\ pc = "kb_start"
    /\ arg.value \in {<< >>, <<"0">>}
    /\ ret' = Some(Zero)
    /\ pc' = "kb_done"
    /\ UNCHANGED <<arg, loc, log, stderr, exit_status, env>>

\* line 97-99, the conversion succeeds
KbParse ==
    /\ pc = "kb_start"
    /\ arg.value \notin {<< >>, <<"0">>}
    /\ LET f == ParseFloat(AllButLast(arg.value))
       IN  /\ f.ok
           /\ loc' = [units  |-> <<Upper(LastChars(arg.value)[1])>>,
                      kbytes |-> TruncateToInt(f)]
    /\ pc' = "kb_units"
    /\ UNCHANGED <<arg, ret, log, stderr, exit_status, env>>

\* line 97-106, the conversion raises ValueError: the handler logs, or the
\* exception leaves the function
KbParseError ==
    /\ pc = "kb_start"
    /\ arg.value \notin {<< >>, <<"0">>}
    /\ ~ParseFloat(AllButLast(arg.value)).ok
    /\ loc' = [units |-> <<Upper(LastChars(arg.value)[1])>>]
    /\ IF ExceptException("ValueError")
       THEN /\ log' = Append(log, [level |-> "error",
                                   msg   |-> <<"get_kbytes_from_str: input value",
                                               arg.value, AllButLast(arg.value),
                                               <<Upper(LastChars(arg.value)[1])>> >>])
            /\ pc' = "kb_return_0"
       ELSE /\ log' = log
            /\ pc' = "raised"
    /\ UNCHANGED <<arg, ret, stderr, exit_status, env>>

\* line 108-115
KbKnownUnit ==
    /\ pc = "kb_units"
    /\ UnitPower(loc.units) >= 0
    /\ ret' = Some(PyInt(loc.kbytes.neg,
                       BigShift(loc.kbytes.mag, UnitPower(loc.units))))
    /\ pc' = "kb_done"
    /\ UNCHANGED <<arg, loc, log, stderr, exit_status, env>>

\* line 116
KbUnknownUnit ==
    /\ pc = "kb_units"
    /\ UnitPower(loc.units) < 0
    /\ log' = Append(log, [level |-> "error",
                           msg   |-> <<"get_kbytes_from_str: unknown unit",
                                       loc.units, arg.value>>])
    /\ pc' = "kb_return_0"
    /\ UNCHANGED <<arg, loc, ret, stderr, exit_status, env>>

\* line 107 and line 117
KbReturnZero ==
    /\ pc = "kb_return_0"
    /\ ret' = Some(Zero)
    /\ pc' = "kb_done"
    /\ UNCHANGED <<arg, loc, log, stderr, exit_status, env>>

\* get_str_from_kbytes(get_kbytes_from_str(text)): the int returned becomes
\* the float parameter of line 120
KbThenStr ==
    /\ pc = "kb_done"
    /\ arg' = [fn |-> "get_str_from_kbytes",
               value |-> Float(ret[1].neg, ret[1].mag, 0),
               text |-> arg.value]
    /\ loc' = [value |-> Float(ret[1].neg, ret[1].mag, 0), unit |-> 1]
    /\ ret' = NoValue
    /\ pc' = "for_unit"
    /\ UNCHANGED <<log, stderr, exit_status, env>>

\* decimal text of a small number
RECURSIVE Decimal(_)
Decimal(n) ==
    IF n < 10 THEN <<DigitChars[n + 1]>>
    ELSE Decimal(n \div 10) \o <<DigitChars[(n % 10) + 1]>>

\* every text of up to MaxLen characters of KbChars, every whole number up
\* to MaxNumber with every unit letter, and some decimal numbers
MaxLen == 3

MaxNumber == 1030

KbChars == {"0", "1", "5", ".", "-", "K", "g", "X"}

UnitLetters == {"K", "M", "G", "T", "k", "m", "g", "t"}

RECURSIVE Texts(_, _)
Texts(chars, n) ==
    IF n = 0 THEN {<< >>}
    ELSE LET shorter == Texts(chars, n - 1)
         IN  shorter \cup {Append(t, c) : t \in {u \in shorter : Len(u) = n - 1},
                                          c \in chars}

NumberSamples ==
    {<<"1", ".", "5">>, <<"0", ".", "5">>, <<"2", ".">>, <<".", "2", "5">>,
     <<"1", "0", ".", "7", "5">>, <<"-", "1", ".", "5">>, <<"-", "0", ".", "5">>,
     <<"1", "0", "2", "3", ".", "9">>, <<"0", "5">>, <<"2", "0", "4", "8">>,
     <<"1", "0", "9", "9", "5", "1", "1", "6", "2", "7", "7", "7", "6">>}

KbTexts ==
    Texts(KbChars, MaxLen)
    \cup {Append(n, u) : n \in {Decimal(i) : i \in 0..MaxNumber} \cup NumberSamples,
                         u \in UnitLetters}

InitKb ==
    /\ \E t \in KbTexts : arg = [fn |-> "get_kbytes_from_str", value |-> t]
    /\ loc = [units |-> << >>]
    /\ pc = "kb_start"
    /\ ret = NoValue
    /\ log = << >>
    /\ stderr = << >>
    /\ exit_status = NoValue
    /\ env = NoValue

NextKb ==
    \/ KbTrivial \/ KbParse \/ KbParseError
    \/ KbKnownUnit \/ KbUnknownUnit \/ KbReturnZero
    \/ KbThenStr \/ StrReturnUnit \/ StrDivide \/ StrReturnYiB

SpecKb == InitKb /\ [][NextKb]_vars

(***************************************************************************)
(* die                                                                     *)
(***************************************************************************)
\* a faulty variant of die that comes back to its caller, which C5 has to
\* tell apart
SysExitLeftOut(status, frame) == [pc |-> frame.return_to, exit_status |-> NoValue]

\* sys.exit(status) raises SystemExit; no handler of this module takes it,
\* so the process ends with that status and the caller's frame is dropped
SysExit(status, frame) == [pc |-> "exited", exit_status |-> Some(status)]

\* line 76
DieLog ==
    /\ pc = "die_log"
    /\ log' = Append(log, [level |-> "error", msg |-> loc.msg])
    /\ pc' = "die_write"
    /\ UNCHANGED <<arg, loc, ret, stderr, exit_status, env>>

\* line 77
DieWrite ==
    /\ pc = "die_write"
    /\ stderr' = Append(stderr, loc.msg)
    /\ pc' = "die_exit"
    /\ UNCHANGED <<arg, loc, ret, log, exit_status, env>>

\* line 78
DieExit ==
    /\ pc = "die_exit"
    /\ pc' = SysExit(1, loc).pc
    /\ exit_status' = SysExit(1, loc).exit_status
    /\ UNCHANGED <<arg, loc, ret, log, stderr, env>>

(***************************************************************************)
(* get_usec_from_str                                                       *)
(***************************************************************************)
\* match.group(name) of a group that took no part in the match
NoGroup == <<"None">>

\* the result of a match that failed
NoMatch ==
    [days |-> NoGroup, hours |-> NoGroup, mins |-> NoGroup,
     secs |-> NoGroup, usec |-> NoGroup, end |-> -1]

CharAt(s, p) == IF p \in 1..Len(s) THEN s[p] ELSE ""

\* length of the longest run of digits of s that starts at p
RECURSIVE DigitRun(_, _)
DigitRun(s, p) ==
    IF p \in 1..Len(s) /\ IsDigit(s[p]) THEN 1 + DigitRun(s, p + 1) ELSE 0

Longest(lens) == CHOOSE n \in lens : \A m \in lens : m <= n

\* The pattern of line 137 is matched as the backtracking matcher does it:
\* \d+ takes the longest run that lets the rest of the pattern match, and an
\* optional group is taken whenever the rest can then match.
\*
\* (?P<secs>\d+)(\.(?P<usec>\d+))? at p
MatchSecs(s, p, groups) ==
    LET n == DigitRun(s, p)
        u == IF CharAt(s, p + n) = "." THEN DigitRun(s, p + n + 1) ELSE 0
    IN  IF n = 0 THEN NoMatch
        ELSE [groups EXCEPT
                 !.secs = SubSeq(s, p, p + n - 1),
                 !.usec = IF u = 0 THEN NoGroup
                          ELSE SubSeq(s, p + n + 1, p + n + u),
                 !.end  = IF u = 0 THEN p + n - 1 ELSE p + n + u]

\* (?P<mins>\d+): at p, then the seconds
MatchMins(s, p, groups) ==
    LET lens == {n \in 1..DigitRun(s, p) :
                    /\ CharAt(s, p + n) = ":"
                    /\ MatchSecs(s, p + n + 1, groups) # NoMatch}
    IN  IF lens = {} THEN NoMatch
        ELSE MatchSecs(s, p + Longest(lens) + 1,
                       [groups EXCEPT !.mins = SubSeq(s, p, p + Longest(lens) - 1)])

\* ((?P<hours>\d+):)? at p, then the minutes
MatchHours(s, p, groups) ==
    LET lens == {n \in 1..DigitRun(s, p) :
                    /\ CharAt(s, p + n) = ":"
                    /\ MatchMins(s, p + n + 1, groups) # NoMatch}
    IN  IF lens = {} THEN MatchMins(s, p, groups)
        ELSE MatchMins(s, p + Longest(lens) + 1,
                       [groups EXCEPT !.hours = SubSeq(s, p, p + Longest(lens) - 1)])

\* ((?P<days>\d+)-)? at p, then the hours
MatchDays(s, p, groups) ==
    LET lens == {n \in 1..DigitRun(s, p) :
                    /\ CharAt(s, p + n) = "-"
                    /\ MatchHours(s, p + n + 1, groups) # NoMatch}
    IN  IF lens = {} THEN MatchHours(s, p, groups)
        ELSE MatchHours(s, p + Longest(lens) + 1,
                        [groups EXCEPT !.days = SubSeq(s, p, p + Longest(lens) - 1)])

\* timeRe.match(time_str): the pattern is tried at the start of the text
\* and need not reach its end
TimeReMatch(s) ==
    MatchDays(s, 1, [days |-> NoGroup, hours |-> NoGroup, mins |-> NoGroup,
                     secs |-> NoGroup, usec |-> NoGroup, end |-> 0])

\* a faulty variant that tests the number, not the text, which C2 has to tell
\* apart
TruthyIfNonZero(group) == group # NoGroup /\ DigitsToBig(group) # << >>

\* the truth value of match.group(name): None and '' are false
Truthy(group) == group # NoGroup /\ group # << >>

\* int(match.group("usec")), line 145
IntOfUsec(group) == DigitsToBig(group)

\* lines 143-152
UsecTotal(m) ==
    LET usec0 == IF Truthy(m.usec) THEN IntOfUsec(m.usec) ELSE << >>
        usec1 == BigAdd(usec0, BigMulSmall(DigitsToBig(m.secs), 1000000))
        usec2 == BigAdd(usec1, BigMulSmall(BigMulSmall(DigitsToBig(m.mins), 1000000), 60))
        usec3 == IF Truthy(m.hours)
                 THEN BigAdd(usec2, BigMulSmall(BigMulSmall(DigitsToBig(m.hours),
                                                            1000000), 3600))
                 ELSE usec2
        usec4 == IF Truthy(m.hours) /\ Truthy(m.days)
                 THEN BigAdd(usec3, BigMulSmall(BigMulSmall(DigitsToBig(m.days),
                                                            1000000), 86400))
                 ELSE usec3
    IN  PyInt(FALSE, usec4)

\* line 136-139
UsecMatch ==
    /\ pc = "usec_start"
    /\ loc' = [match |-> TimeReMatch(arg.time_str)]
    /\ pc' = "usec_if_not_match"
    /\ UNCHANGED <<arg, ret, log, stderr, exit_status, env>>

\* line 140-141, no match: die is called
UsecDie ==
    /\ pc = "usec_if_not_match"
    /\ loc.match = NoMatch
    /\ loc' = [match |-> loc.match,
               msg |-> <<"Could not parse: ", arg.time_str>>,
               return_to |-> "usec_assert"]
    /\ pc' = "die_log"
    /\ UNCHANGED <<arg, ret, log, stderr, exit_status, env>>

\* line 140, there is a match
UsecMatched ==
    /\ pc = "usec_if_not_match"
    /\ loc.match # NoMatch
    /\ pc' = "usec_assert"
    /\ UNCHANGED <<arg, loc, ret, log, stderr, exit_status, env>>

\* line 142
UsecAssert ==
    /\ pc = "usec_assert"
    /\ pc' = IF loc.match # NoMatch THEN "usec_sum" ELSE "raised"
    /\ UNCHANGED <<arg, loc, ret, log, stderr, exit_status, env>>

\* line 143-152
UsecReturn ==
    /\ pc = "usec_sum"
    /\ ret' = Some(UsecTotal(loc.match))
    /\ pc' = "usec_done"
    /\ UNCHANGED <<arg, loc, log, stderr, exit_status, env>>

\* every text of up to MaxTimeLen characters of TimeChars, and the texts
\* put together from the field samples and an ending
MaxTimeLen == 4

TimeChars == {"0", "1", ":", "-", ".", "x"}

DaySamples == {NoGroup, <<"1">>, <<"1", "2">>, <<"0">>}

HourSamples == {NoGroup, <<"0", "0">>, <<"0">>, <<"1">>, <<"0", "2">>, <<"2", "3">>}

MinSamples == {<<"0", "0">>, <<"0", "1">>, <<"2">>, <<"0", "3">>, <<"3", "0">>}

SecSamples == {<<"0", "0">>, <<"0", "1">>, <<"3">>, <<"0", "4">>, <<"0", "5">>, <<"3", "0">>}

UsecSamples == {NoGroup, <<"5">>, <<"5", "0">>, <<"5", "0", "0", "0", "0", "0">>, <<"0", "0", "0", "0", "0", "1">>, <<"0">>, <<"1", "2", "3", "4", "5", "6", "7">>}

Endings == {<< >>, <<"x", "y", "z">>, <<":", "4">>, <<".">>}

Compose(days, hours, mins, secs, usec, ending) ==
    (IF days = NoGroup THEN << >> ELSE days \o <<"-">>)
    \o (IF hours = NoGroup THEN << >> ELSE hours \o <<":">>)
    \o mins \o <<":">> \o secs
    \o (IF usec = NoGroup THEN << >> ELSE <<".">> \o usec)
    \o ending

TimeTexts ==
    Texts(TimeChars, MaxTimeLen)
    \cup {Compose(d, h, m, sec, u, e) :
             d \in DaySamples, h \in HourSamples, m \in MinSamples,
             sec \in SecSamples, u \in UsecSamples, e \in Endings}

InitUsec ==
    /\ \E t \in TimeTexts : arg = [fn |-> "get_usec_from_str", time_str |-> t]
    /\ loc = [match |-> NoMatch]
    /\ pc = "usec_start"
    /\ ret = NoValue
    /\ log = << >>
    /\ stderr = << >>
    /\ exit_status = NoValue
    /\ env = NoValue

NextUsec ==
    \/ UsecMatch \/ UsecDie \/ UsecMatched \/ UsecAssert \/ UsecReturn
    \/ DieLog \/ DieWrite \/ DieExit

SpecUsec == InitUsec /\ [][NextUsec]_vars

(***************************************************************************)
(* run_command and tail_file                                               *)
(*                                                                         *)
(* A message or an output is a record of a template and the texts put into *)
(* it.  env is the file system and the command as tail_file meets them:    *)
(* whether the file exists, its lines, whether they decode as UTF-8,       *)
(* whether the executable can be started, whether exists() fails with an   *)
(* I/O error, and the command lines handed to Popen so far.                *)
(***************************************************************************)
Text(template, args) == [template |-> template, args |-> args]

\* "{0}".format(n) of an int
NumberText(n) == IF n < 0 THEN <<"-">> \o Decimal(0 - n) ELSE Decimal(n)

InvalidLinesMessage(num_lines) ==
    Text("slurm-mail: invalid number of lines to tail: {0}", <<NumberText(num_lines)>>)

NotExistMessage(f) == Text("slurm-mail: file {0} does not exist", <<f>>)

ReadErrorMessage(num_lines, f) ==
    Text("slurm-mail: error trying to read the last {0} lines of {1}",
         <<NumberText(num_lines), f>>)

UnableMessage(exc) == Text("Unable to return contents of file: {0}", <<exc>>)

\* "{0} -{1} '{2}'".format(tail_exe, num_lines, f), line 184
CommandLine(tail_exe, num_lines, f) ==
    tail_exe \o <<" ", "-">> \o NumberText(num_lines) \o <<" ", "'">> \o f \o <<"'">>

\* shlex.split raises ValueError ("No closing quotation") on a command line
\* without double quotes and backslashes when its quotes do not pair up
ShlexRaises(cmd) == Cardinality({i \in 1..Len(cmd) : cmd[i] = "'"}) % 2 = 1

\* the last n lines of the file
LastLines(lines, n) ==
    IF n >= Len(lines) THEN lines ELSE SubSeq(lines, Len(lines) - n + 1, Len(lines))

\* a faulty variant, num_lines < 0, which C7 has to tell apart
InvalidLinesNegative(num_lines) == num_lines < 0

\* line 172
InvalidLines(num_lines) == num_lines < 1

\* a faulty variant, "except OSError", which C1 has to tell apart
TailHandlerOSErrorOnly(exc) ==
    exc \in {<<"OSError">>, <<"FileNotFoundError">>}

\* line 193: except Exception
TailHandlerTakes(exc) ==
    exc \notin {<<"SystemExit">>, <<"KeyboardInterrupt">>, <<"GeneratorExit">>}

\* calls with -1..MaxLines lines on files of up to MaxFileLines lines
MaxLines == 2

MaxFileLines == 2

ExitCodes == {0, 1, 2, -9}

PathSamples == {<<"/", "j", ".", "o", "u", "t">>, <<"/", "i", "t", "'", "s">>, <<"/", "a", "'", "b", "'", "c">>}

ExeSamples == {<<"t", "a", "i", "l">>}

FileLines == <<<<"a">>, <<"b">>, <<"c">>, <<"d">>>>

\* line 172-175
TailCheckLines ==
    /\ pc = "tail_start"
    /\ IF InvalidLines(arg.num_lines)
       THEN /\ loc' = [loc EXCEPT !.err_msg = Some(InvalidLinesMessage(arg.num_lines))]
            /\ pc' = "tail_log"
       ELSE /\ loc' = loc
            /\ pc' = "tail_exists"
    /\ UNCHANGED <<arg, ret, log, stderr, exit_status, env>>

\* line 179-180: pathlib.Path(f).exists() answers, or fails with an I/O error
TailExists ==
    /\ pc = "tail_exists"
    /\ IF env.io_error
       THEN /\ loc' = [loc EXCEPT !.exc = Some(<<"OSError">>)]
            /\ pc' = "tail_except"
       ELSE IF env.exists
       THEN /\ loc' = [loc EXCEPT !.existed = Some(TRUE)]
            /\ pc' = "tail_run"
       ELSE /\ loc' = [loc EXCEPT !.existed = Some(FALSE),
                                  !.err_msg = Some(NotExistMessage(arg.f))]
            /\ pc' = "tail_log"
    /\ UNCHANGED <<arg, ret, log, stderr, exit_status, env>>

\* the file is removed by another process while tail_file is between its
\* existence check and the command
FileRemoved ==
    /\ pc = "tail_run"
    /\ env.exists
    /\ env' = [env EXCEPT !.exists = FALSE]
    /\ UNCHANGED <<pc, arg, loc, ret, log, stderr, exit_status>>

\* line 184 and run_command, lines 160-165: the command line is split, the
\* process started and waited for, its output decoded
TailRunCommand ==
    /\ pc = "tail_run"
    /\ LET cmd == CommandLine(arg.tail_exe, arg.num_lines, arg.f)
       IN  IF ShlexRaises(cmd)
           THEN /\ loc' = [loc EXCEPT !.exc = Some(<<"ValueError">>)]
                /\ pc' = "tail_except"
                /\ env' = env
           ELSE IF ~env.exe_ok
           THEN /\ loc' = [loc EXCEPT !.exc = Some(<<"FileNotFoundError">>)]
                /\ pc' = "tail_except"
                /\ env' = [env EXCEPT !.popen = Append(@, cmd)]
           ELSE /\ env' = [env EXCEPT !.popen = Append(@, cmd)]
                /\ \E rtn \in ExitCodes, k \in 0..Len(env.lines) :
                      LET out == LastLines(env.lines, arg.num_lines)
                      IN  /\ rtn = 0 => (env.exists /\ k = Len(out))
                          /\ ~env.exists => k = 0
                          /\ k <= Len(out)
                          /\ IF env.utf8 \/ k = 0
                             THEN /\ loc' = [loc EXCEPT
                                               !.rtn = Some(rtn),
                                               !.stdout = Some(Text("{stdout}",
                                                                    SubSeq(out, 1, k)))]
                                  /\ pc' = "tail_if_rtn"
                             ELSE /\ loc' = [loc EXCEPT
                                               !.exc = Some(<<"UnicodeDecodeError">>)]
                                  /\ pc' = "tail_except"
    /\ UNCHANGED <<arg, ret, log, stderr, exit_status>>

\* line 185-189
TailCheckExit ==
    /\ pc = "tail_if_rtn"
    /\ IF loc.rtn # Some(0)
       THEN /\ loc' = [loc EXCEPT
                         !.err_msg = Some(ReadErrorMessage(arg.num_lines, arg.f))]
            /\ pc' = "tail_log"
       ELSE /\ loc' = loc
            /\ pc' = "tail_return_stdout"
    /\ UNCHANGED <<arg, ret, log, stderr, exit_status, env>>

\* lines 176, 181 and 190: logger.error(err_msg)
TailLogError ==
    /\ pc = "tail_log"
    /\ log' = Append(log, [level |-> "error", msg |-> loc.err_msg[1]])
    /\ pc' = "tail_return_err"
    /\ UNCHANGED <<arg, loc, ret, stderr, exit_status, env>>

\* lines 177, 182 and 191: return err_msg
TailReturnError ==
    /\ pc = "tail_return_err"
    /\ ret' = Some(loc.err_msg[1])
    /\ pc' = "tail_done"
    /\ UNCHANGED <<arg, loc, log, stderr, exit_status, env>>

\* line 192
TailReturnStdout ==
    /\ pc = "tail_return_stdout"
    /\ ret' = loc.stdout
    /\ pc' = "tail_done"
    /\ UNCHANGED <<arg, loc, log, stderr, exit_status, env>>

\* line 193-194: the handler returns the text of the exception, or the
\* exception is not one it takes and leaves tail_file
TailExcept ==
    /\ pc = "tail_except"
    /\ IF TailHandlerTakes(loc.exc[1])
       THEN /\ ret' = Some(UnableMessage(loc.exc[1]))
            /\ pc' = "tail_done"
       ELSE /\ ret' = ret
            /\ pc' = "raised"
    /\ UNCHANGED <<arg, loc, log, stderr, exit_status, env>>

InitTail ==
    /\ \E f \in PathSamples, n \in (-1)..MaxLines, exe \in ExeSamples :
          arg = [fn |-> "tail_file", f |-> f, num_lines |-> n, tail_exe |-> exe]
    /\ \E exists \in BOOLEAN, len \in 0..MaxFileLines, utf8 \in BOOLEAN,
          exe_ok \in BOOLEAN, io_error \in BOOLEAN :
          env = [exists |-> exists,
                 lines |-> IF exists THEN SubSeq(FileLines, 1, len) ELSE << >>,
                 utf8 |-> utf8, exe_ok |-> exe_ok, io_error |-> io_error,
                 popen |-> << >>]
    /\ loc = [err_msg |-> NoValue, existed |-> NoValue, rtn |-> NoValue,
              stdout |-> NoValue, exc |-> NoValue]
    /\ pc = "tail_start"
    /\ ret = NoValue
    /\ log = << >>
    /\ stderr = << >>
    /\ exit_status = NoValue

NextTail ==
    \/ TailCheckLines \/ TailExists \/ FileRemoved \/ TailRunCommand
    \/ TailCheckExit \/ TailLogError \/ TailReturnError \/ TailReturnStdout
    \/ TailExcept

SpecTail == InitTail /\ [][NextTail]_vars

(***************************************************************************)
(* Comparison of naturals and reading of a shown number, used to state     *)
(* the properties.                                                         *)
(***************************************************************************)
RECURSIVE LimbsLess(_, _)
LimbsLess(x, y) ==
    IF x = << >> THEN FALSE
    ELSE IF x[Len(x)] # y[Len(y)] THEN x[Len(x)] < y[Len(y)]
    ELSE LimbsLess(SubSeq(x, 1, Len(x) - 1), SubSeq(y, 1, Len(y) - 1))

BigLess(x, y) == IF Len(x) # Len(y) THEN Len(x) < Len(y) ELSE LimbsLess(x, y)

BigLeq(x, y) == x = y \/ BigLess(x, y)

Power1024(k) == BigShift(<<1>>, k)

AllDigits(s) == \A i \in 1..Len(s) : IsDigit(s[i])

AllUnitNames == UnitNames \o << <<"Y", "i">> >>

\* the least number of divisions by 1024 that brings the magnitude below
\* 1024, or 7 when six divisions do not
LeastDivisions(v) ==
    LET below(k) == BigLess(v.mant, Power1024(v.scale + k + 1))
    IN  IF \E k \in 0..6 : below(k)
        THEN CHOOSE k \in 0..6 : below(k) /\ \A j \in 0..(k - 1) : ~below(j)
        ELSE 7

\* the text before the three characters of the unit
ShownNumber(r) == SubSeq(r, 1, Len(r) - 3)

ShownUnit(r) == SubSeq(r, Len(r) - 2, Len(r))

Unsigned(n) == IF n # << >> /\ n[1] = "-" THEN Tail(n) ELSE n

\* digits, a point, two digits
HasTwoDecimals(n) ==
    LET u == Unsigned(n)
    IN  /\ Len(u) >= 4
        /\ u[Len(u) - 2] = "."
        /\ AllDigits(SubSeq(u, 1, Len(u) - 3))
        /\ AllDigits(SubSeq(u, Len(u) - 1, Len(u)))

\* the shown number times 100
ShownHundredths(n) ==
    LET u == Unsigned(n)
    IN  DigitsToBig(SubSeq(u, 1, Len(u) - 3) \o SubSeq(u, Len(u) - 1, Len(u)))

\* h hundredths is a nearest hundredth to mant / 1024^d
NearestHundredth(h, mant, d) ==
    LET hd2  == BigMulSmall(BigShift(h, d), 2)
        m200 == BigMulSmall(mant, 200)
    IN  /\ BigLeq(hd2, BigAdd(m200, Power1024(d)))
        /\ BigLeq(m200, BigAdd(hd2, Power1024(d)))

\* C6: get_str_from_kbytes returns the value divided by 1024^k, shown with
\* exactly two decimals, followed by the k-th unit of KiB..ZiB, k the least
\* number of divisions that brings the magnitude below 1024, and by YiB after
\* seven divisions when there is no such k <= 6; 0 gives 0.00KiB, 1024 gives
\* 1.00MiB and 1048576 gives 1.00GiB.
C6_UnitAndTwoDecimals ==
    (pc = "done" /\ arg.fn = "get_str_from_kbytes") =>
        LET v == arg.value
            k == LeastDivisions(v)
            n == ShownNumber(ret[1])
        IN  /\ ShownUnit(ret[1]) = AllUnitNames[k + 1] \o <<"B">>
            /\ HasTwoDecimals(n)
            /\ (n[1] = "-") = v.neg
            /\ NearestHundredth(ShownHundredths(n), v.mant, v.scale + k)
            /\ v = Float(FALSE, << >>, 0) =>
                   ret[1] = <<"0", ".", "0", "0", "K", "i", "B">>
            /\ v = Float(FALSE, BigFromInt(1024), 0) =>
                   ret[1] = <<"1", ".", "0", "0", "M", "i", "B">>
            /\ v = Float(FALSE, BigFromInt(1048576), 0) =>
                   ret[1] = <<"1", ".", "0", "0", "G", "i", "B">>

\* a size that is still 1024 or more after seven divisions was returned
C6_Witness ==
    /\ pc = "done"
    /\ arg.fn = "get_str_from_kbytes"
    /\ LeastDivisions(arg.value) = 7
    /\ ~AbsBelow1024(loc.value)
    /\ ShownUnit(ret[1]) = <<"Y", "i", "B">>

(***************************************************************************)
(* Properties of get_kbytes_from_str.                                      *)
(***************************************************************************)
KbReturned == pc = "kb_done" /\ arg.fn = "get_kbytes_from_str"

\* digits with at most one decimal point among them, at least one digit
IsPlainNumber(s) ==
    /\ \A i \in 1..Len(s) : IsDigit(s[i]) \/ s[i] = "."
    /\ \A i, j \in 1..Len(s) : (s[i] = "." /\ s[j] = ".") => i = j
    /\ \E i \in 1..Len(s) : IsDigit(s[i])

\* the same with an optional sign in front
IsNumber(s) ==
    IsPlainNumber(s) \/ (s # << >> /\ s[1] \in {"-", "+"} /\ IsPlainNumber(Tail(s)))

\* the digits of s, the point left out
RECURSIVE DigitsOf(_)
DigitsOf(s) ==
    IF s = << >> THEN << >>
    ELSE (IF IsDigit(s[1]) THEN <<s[1]>> ELSE << >>) \o DigitsOf(Tail(s))

\* how many digits follow the point
RECURSIVE FractionDigits(_)
FractionDigits(s) ==
    IF s = << >> THEN 0
    ELSE IF s[1] = "." THEN Len(s) - 1
    ELSE FractionDigits(Tail(s))

RECURSIVE TimesPowerOfTen(_, _)
TimesPowerOfTen(x, k) ==
    IF k = 0 THEN x ELSE TimesPowerOfTen(BigMulSmall(x, 10), k - 1)

\* scale(K) = 1, scale(M) = 1024, scale(G) = 1048576, scale(T) = 1073741824
ScalePower(u) ==
    CASE u \in {"K", "k"} -> 0
      [] u \in {"M", "m"} -> 1
      [] u \in {"G", "g"} -> 2
      [] u \in {"T", "t"} -> 3

\* C3: for every unit letter u of K, M, G, T in either case and every numeric
\* n, integer or decimal, get_kbytes_from_str(n u) = n * scale(u).  With f
\* digits after the point and N the number read without the point, this is
\* result * 10^f = N * scale(u).
C3_ScaledNumber ==
    LET s == arg.value
        n == AllButLast(s)
    IN  (KbReturned /\ Len(s) >= 2 /\ s[Len(s)] \in UnitLetters /\ IsPlainNumber(n)) =>
            /\ ~ret[1].neg
            /\ TimesPowerOfTen(ret[1].mag, FractionDigits(n))
                 = BigShift(DigitsToBig(DigitsOf(n)), ScalePower(s[Len(s)]))

ErrorLogged == log # << >> /\ \A i \in 1..Len(log) : log[i].level = "error"

IsPyInt(r) ==
    /\ DOMAIN r = {"neg", "mag"}
    /\ r.neg \in BOOLEAN
    /\ r.mag = Norm(r.mag)
    /\ \A i \in 1..Len(r.mag) : r.mag[i] \in 0..(Base - 1)
    /\ r.neg => r.mag # << >>

\* C4: get_kbytes_from_str never raises and returns an integer; it returns 0
\* for the empty text and for '0', for every text whose part before the last
\* character is not a number and for every text whose last character is none
\* of K, M, G, T in either case, and in the last two cases an error has been
\* logged when it returns.
C4_NeverRaisesZeroOnBadInput ==
    LET s == arg.value
    IN  /\ pc # "raised"
        /\ (arg.fn = "get_kbytes_from_str" /\ pc # "kb_done") => ret = NoValue
        /\ KbReturned =>
              /\ ret # NoValue
              /\ IsPyInt(ret[1])
              /\ s \in {<< >>, <<"0">>} => ret = Some(Zero)
              /\ (s \notin {<< >>, <<"0">>} /\ ~IsNumber(AllButLast(s))) =>
                     (ret = Some(Zero) /\ ErrorLogged)
              /\ (s \notin {<< >>, <<"0">>} /\ s[Len(s)] \notin UnitLetters) =>
                     (ret = Some(Zero) /\ ErrorLogged)
        /\ (arg.fn = "get_kbytes_from_str" /\ pc = "kb_return_0") => ErrorLogged

\* a bare number without a unit letter was answered with 0
C4_Witness ==
    /\ KbReturned
    /\ arg.value = <<"1", "5">>
    /\ ret = Some(Zero)
    /\ ErrorLogged

(***************************************************************************)
(* get_str_from_kbytes applied to the result of get_kbytes_from_str.       *)
(***************************************************************************)
\* the number a text of up to four digits stands for
RECURSIVE SmallNumber(_)
SmallNumber(ds) ==
    IF ds = << >> THEN 0
    ELSE 10 * SmallNumber(SubSeq(ds, 1, Len(ds) - 1)) + DigitVal(ds[Len(ds)])

UnitLetter(u) ==
    CASE u \in {"K", "k"} -> "K"
      [] u \in {"M", "m"} -> "M"
      [] u \in {"G", "g"} -> "G"
      [] u \in {"T", "t"} -> "T"

\* C10: for every integer n with 1 <= n <= 1023 and every unit letter u,
\* get_str_from_kbytes(get_kbytes_from_str(n u)) is n with two zero decimals
\* followed by the upper-case u and iB.
C10_RoundTrip ==
    (pc = "done" /\ "text" \in DOMAIN arg) =>
        LET s == arg.text
            n == AllButLast(s)
        IN  (/\ Len(s) \in 2..5
             /\ s[Len(s)] \in UnitLetters
             /\ AllDigits(n)
             /\ SmallNumber(n) \in 1..1023) =>
                ret = Some(Decimal(SmallNumber(n)) \o <<".", "0", "0">>
                           \o <<UnitLetter(s[Len(s)]), "i", "B">>)

\* '1023t' came back as 1023.00TiB
C10_Witness ==
    /\ pc = "done"
    /\ "text" \in DOMAIN arg
    /\ arg.text = <<"1", "0", "2", "3", "t">>
    /\ ret = Some(<<"1", "0", "2", "3", ".", "0", "0", "T", "i", "B">>)

(***************************************************************************)
(* Properties of get_usec_from_str and die.                                *)
(***************************************************************************)
\* the pieces of s between the occurrences of sep
RECURSIVE Split(_, _)
Split(s, sep) ==
    IF \A i \in 1..Len(s) : s[i] # sep THEN <<s>>
    ELSE LET i == CHOOSE j \in 1..Len(s) :
                      s[j] = sep /\ \A k \in 1..(j - 1) : s[k] # sep
         IN  <<SubSeq(s, 1, i - 1)>> \o Split(SubSeq(s, i + 1, Len(s)), sep)

\* s read as [days-][hours:]mins:secs[.usec]
FieldsOf(s) ==
    LET byDash  == Split(s, "-")
        byPoint == Split(byDash[Len(byDash)], ".")
        byColon == Split(byPoint[1], ":")
    IN  [shape |-> <<Len(byDash), Len(byColon), Len(byPoint)>>,
         days  |-> IF Len(byDash) = 2 THEN byDash[1] ELSE NoGroup,
         hours |-> IF Len(byColon) = 3 THEN byColon[1] ELSE NoGroup,
         mins  |-> IF Len(byColon) >= 2 THEN byColon[Len(byColon) - 1] ELSE NoGroup,
         secs  |-> byColon[Len(byColon)],
         usec  |-> IF Len(byPoint) = 2 THEN byPoint[2] ELSE NoGroup]

IsDigits(f) == f # << >> /\ AllDigits(f)

\* the whole of s has the form [days-][hours:]mins:secs[.usec], every group
\* a non-empty run of digits
IsDuration(s) ==
    LET f == FieldsOf(s)
    IN  /\ f.shape[1] \in 1..2
        /\ f.shape[2] \in 2..3
        /\ f.shape[3] \in 1..2
        /\ \A g \in {f.days, f.hours, f.usec} : g = NoGroup \/ IsDigits(g)
        /\ IsDigits(f.mins)
        /\ IsDigits(f.secs)

\* s starts with a duration: the pattern matches
HasDurationPrefix(s) == \E n \in 1..Len(s) : IsDuration(SubSeq(s, 1, n))

Seconds(group, each) ==
    IF group = NoGroup THEN << >> ELSE BigMulSmall(DigitsToBig(group), each)

\* microseconds of the fields other than usec
WholeSeconds(f) ==
    BigMulSmall(
        BigAdd(BigAdd(Seconds(f.secs, 1), Seconds(f.mins, 60)),
               BigAdd(Seconds(f.hours, 3600),
                      IF f.hours = NoGroup THEN << >> ELSE Seconds(f.days, 86400))),
        1000000)

UsecReturned == pc = "usec_done" /\ arg.fn = "get_usec_from_str"

\* C2: for every text of the form [days-][hours:]mins:secs[.usec],
\* get_usec_from_str returns usec + secs*1,000,000 + mins*60,000,000, plus
\* hours*3,600,000,000 when the hours group is present, also with value zero,
\* plus days*86,400,000,000 only when the hours and the days group are both
\* present; days without hours add nothing.
C2_MicrosecondSum ==
    (arg.fn = "get_usec_from_str" /\ IsDuration(arg.time_str)) =>
        LET f == FieldsOf(arg.time_str)
        IN  /\ pc \in {"usec_start", "usec_if_not_match", "usec_assert",
                       "usec_sum", "usec_done"}
            /\ UsecReturned =>
                  ret = Some(PyInt(FALSE,
                                   BigAdd(IF f.usec = NoGroup THEN << >>
                                          ELSE DigitsToBig(f.usec),
                                          WholeSeconds(f))))

\* '1-00:00:05' gave 86,405,000,000
C2_Witness ==
    /\ UsecReturned
    /\ arg.time_str = <<"1", "-", "0", "0", ":", "0", "0", ":", "0", "5">>
    /\ BigToStr(ret[1].mag) = <<"8", "6", "4", "0", "5", "0", "0", "0", "0", "0", "0">>

\* d * 10^(6 - k) for the k digits d
RECURSIVE PadToMicroseconds(_, _)
PadToMicroseconds(x, k) ==
    IF k >= 6 THEN x ELSE PadToMicroseconds(BigMulSmall(x, 10), k + 1)

\* C9: the digits after the point are a fraction of a second: k digits d,
\* 1 <= k <= 6, add d * 10^(6-k) microseconds, so trailing zeros change
\* nothing.
C9_FractionOfSecond ==
    LET f == FieldsOf(arg.time_str)
    IN  (/\ UsecReturned
         /\ IsDuration(arg.time_str)
         /\ f.usec # NoGroup
         /\ Len(f.usec) \in 1..6) =>
            ret = Some(PyInt(FALSE,
                             BigAdd(PadToMicroseconds(DigitsToBig(f.usec), Len(f.usec)),
                                    WholeSeconds(f))))

\* C8: get_usec_from_str returns a value only when the entire text is a
\* duration; a text with anything after a well-formed duration ends in die.
C8_WholeTextOnly ==
    (arg.fn = "get_usec_from_str" /\ ret # NoValue) => IsDuration(arg.time_str)

CouldNotParse == <<"Could not parse: ", arg.time_str>>

\* C5: for a text the pattern does not match, the 'Could not parse' message
\* is logged at error level, then written to standard error, then the process
\* exits with a non-zero status; no value is returned and no statement of
\* get_usec_from_str after the call of die runs.
C5_DieOnNoMatch ==
    (arg.fn = "get_usec_from_str" /\ ~HasDurationPrefix(arg.time_str)) =>
        /\ pc \in {"usec_start", "usec_if_not_match",
                   "die_log", "die_write", "die_exit", "exited"}
        /\ ret = NoValue
        /\ log = IF pc \in {"die_write", "die_exit", "exited"}
                 THEN <<[level |-> "error", msg |-> CouldNotParse]>> ELSE << >>
        /\ stderr = IF pc \in {"die_exit", "exited"} THEN <<CouldNotParse>> ELSE << >>
        /\ exit_status # NoValue <=> pc = "exited"
        /\ exit_status # NoValue => exit_status[1] # 0
        /\ pc # "exited" => ENABLED (UsecMatch \/ UsecDie \/ DieLog \/ DieWrite \/ DieExit)

\* 'x:1' ended the process with status 1 after the log record and the line
\* on standard error
C5_Witness ==
    /\ arg.fn = "get_usec_from_str"
    /\ arg.time_str = <<"x", ":", "1">>
    /\ pc = "exited"
    /\ exit_status = Some(1)
    /\ Len(log) = 1
    /\ Len(stderr) = 1

(***************************************************************************)
(* Properties of tail_file.                                                *)
(***************************************************************************)
TailReturned == pc = "tail_done" /\ arg.fn = "tail_file"

IsText(r) == DOMAIN r = {"template", "args"}

ErrorTemplates ==
    {"slurm-mail: invalid number of lines to tail: {0}",
     "slurm-mail: file {0} does not exist",
     "slurm-mail: error trying to read the last {0} lines of {1}",
     "Unable to return contents of file: {0}"}

\* C1: tail_file never raises and never ends the process: whatever num_lines,
\* the path and the behaviour of the command (exit 0, non-zero exit, failure
\* to launch, I/O error, file removed after the existence check), the call
\* goes on until it returns a string, which is the command's standard output
\* or an error message.
C1_TailAlwaysReturnsText ==
    arg.fn = "tail_file" =>
        /\ pc # "raised"
        /\ exit_status = NoValue
        /\ TailReturned =>
              /\ ret # NoValue
              /\ IsText(ret[1])
              /\ \/ ret[1].template \in ErrorTemplates
                 \/ (loc.rtn = Some(0) /\ ret = loc.stdout)
        /\ ~TailReturned =>
              /\ ret = NoValue
              /\ ENABLED (\/ TailCheckLines \/ TailExists \/ TailRunCommand
                          \/ TailCheckExit \/ TailLogError \/ TailReturnError
                          \/ TailReturnStdout \/ TailExcept)

\* the executable could not be started and the call returned a message
C1_Witness ==
    /\ TailReturned
    /\ loc.exc = Some(<<"FileNotFoundError">>)
    /\ ret = Some(Text("Unable to return contents of file: {0}",
                       <<<<"FileNotFoundError">>>>))

LoggedError(text) == log = <<[level |-> "error", msg |-> text]>>

\* C7: the checks of tail_file come in a fixed order and the first that
\* fails decides: num_lines < 1 gives the 'invalid number of lines' message,
\* also for a missing file; else a missing file gives 'does not exist'; else
\* a non-zero exit gives 'error trying to read', never the partial output;
\* else the standard output is returned.  The command is launched at most
\* once, as <exe> -<N> '<path>', only after num_lines >= 1 and the existence
\* of the file are established, and each of the three messages is logged
\* before it is returned.
C7_ChecksInOrder ==
    arg.fn = "tail_file" =>
        /\ Len(env.popen) <= 1
        /\ env.popen # << >> =>
              /\ arg.num_lines >= 1
              /\ loc.existed = Some(TRUE)
              /\ env.popen[1] = arg.tail_exe \o <<" ", "-">> \o Decimal(arg.num_lines)
                                \o <<" ", "'">> \o arg.f \o <<"'">>
        /\ pc = "tail_return_err" => LoggedError(loc.err_msg[1])
        /\ TailReturned =>
              IF arg.num_lines < 1
              THEN /\ ret[1].template = "slurm-mail: invalid number of lines to tail: {0}"
                   /\ ret[1].args = <<NumberText(arg.num_lines)>>
                   /\ LoggedError(ret[1])
                   /\ loc.existed = NoValue
                   /\ env.popen = << >>
              ELSE IF loc.existed = Some(FALSE)
              THEN /\ ret[1].template = "slurm-mail: file {0} does not exist"
                   /\ ret[1].args = <<arg.f>>
                   /\ LoggedError(ret[1])
                   /\ env.popen = << >>
              ELSE IF loc.rtn # NoValue /\ loc.rtn # Some(0)
              THEN /\ ret[1].template
                        = "slurm-mail: error trying to read the last {0} lines of {1}"
                   /\ ret[1].args = <<NumberText(arg.num_lines), arg.f>>
                   /\ LoggedError(ret[1])
                   /\ ret # loc.stdout
              ELSE loc.rtn = Some(0) =>
                   /\ ret = loc.stdout
                   /\ ret[1].template = "{stdout}"
                   /\ log = << >>

\* the command wrote a line and exited with a non-zero status; the message
\* came back, not the line
C7_Witness ==
    /\ TailReturned
    /\ loc.rtn = Some(1)
    /\ loc.stdout[1].args # << >>
    /\ ret[1].template = "slurm-mail: error trying to read the last {0} lines of {1}"
    /\ Len(env.popen) = 1

====
